---------------------------- MODULE Spec2Model ----------------------------
(***************************************************************************)
(* A model of the dynamic-programming core of PartsBasedDetector:          *)
(* src/src/DynamicProgram.cpp (reducePickIndex, reduceMax,                 *)
(* distanceTransform1D, distanceTransform, minRecursive, min).             *)
(*                                                                         *)
(* Conventions                                                             *)
(*  - a C float is a record [t, n, d]: t = "fin" is the rational n/d       *)
(*    (d > 0), t = "pinf" / "ninf" / "nan" are the IEEE specials.  Only    *)
(*    small integer inputs are drawn, so rounding never occurs.            *)
(*  - a C array is a function over the indices that have been written; an  *)
(*    access outside the allocation, or to an element never written, is    *)
(*    undefined behaviour and sends the routine to pc = "ub".              *)
(*  - assert() is compiled in (no NDEBUG) and cv::Mat checks its ranges    *)
(*    (CV_Assert); a failed check ends the call with an error.             *)
(***************************************************************************)
EXTENDS Integers, Sequences, FiniteSets, TLC

VARIABLES dt, red, d2, mn, model, scores, stack, hist

vars == <<dt, red, d2, mn, model, scores, stack, hist>>

(* The value of a harness that the running specification does not use. *)
Idle == [pc |-> "idle"]

-----------------------------------------------------------------------------
(* Bounds of the inputs that are enumerated. *)

MaxN == 3
MaxVal == 1

-----------------------------------------------------------------------------
(* float arithmetic *)

F(i) == [t |-> "fin", n |-> i, d |-> 1]
PInf == [t |-> "pinf", n |-> 0, d |-> 1]
NInf == [t |-> "ninf", n |-> 0, d |-> 1]
NaN == [t |-> "nan", n |-> 0, d |-> 1]

FNeg(x) ==
    CASE x.t = "fin" -> [x EXCEPT !.n = 0 - x.n]
      [] x.t = "pinf" -> NInf
      [] x.t = "ninf" -> PInf
      [] OTHER -> NaN

FAdd(x, y) ==
    CASE x.t = "nan" \/ y.t = "nan" -> NaN
      [] x.t = "fin" /\ y.t = "fin" ->
            [t |-> "fin", n |-> x.n * y.d + y.n * x.d, d |-> x.d * y.d]
      [] x.t = "fin" -> y
      [] y.t = "fin" -> x
      [] x.t = y.t -> x
      [] OTHER -> NaN

FSub(x, y) == FAdd(x, FNeg(y))

(* x / i for a non-zero integer-valued divisor i *)
FDivInt(x, i) ==
    CASE x.t = "nan" -> NaN
      [] x.t = "fin" ->
            IF i > 0 THEN [t |-> "fin", n |-> x.n, d |-> x.d * i]
                     ELSE [t |-> "fin", n |-> 0 - x.n, d |-> x.d * (0 - i)]
      [] OTHER -> IF i > 0 THEN x ELSE FNeg(x)

FLe(x, y) ==
    CASE x.t = "nan" \/ y.t = "nan" -> FALSE
      [] x.t = "ninf" \/ y.t = "pinf" -> TRUE
      [] x.t = "pinf" \/ y.t = "ninf" -> FALSE
      [] OTHER -> x.n * y.d <= y.n * x.d

FLt(x, y) ==
    CASE x.t = "nan" \/ y.t = "nan" -> FALSE
      [] x.t = y.t /\ x.t # "fin" -> FALSE
      [] x.t = "ninf" \/ y.t = "pinf" -> TRUE
      [] x.t = "pinf" \/ y.t = "ninf" -> FALSE
      [] OTHER -> x.n * y.d < y.n * x.d

FGt(x, y) == FLt(y, x)

(* equality of two floats as numbers (operator ==) *)
FEq(x, y) == FLe(x, y) /\ FLe(y, x)

square(x) == x * x

-----------------------------------------------------------------------------
(* distanceTransform1D, one step per pass through a loop head *)

(* The locals after lines 160-165: v and z allocated, v[0], z[0], z[1] set. *)
DT1DEnter(src, n, a, b) ==
    [pc |-> "loop", src |-> src, n |-> n, a |-> a, b |-> b,
     v |-> (0 :> 0), z |-> (0 :> PInf) @@ (1 :> NInf),
     k |-> 0, q |-> 1, s |-> NaN,
     dst |-> << >>, ptr |-> << >>]

(* v[i], z[i], src[i] can be read: inside the allocation and written. *)
VReadable(st, i) == i \in 0..(st.n - 1) /\ i \in DOMAIN st.v
ZReadable(st, i) == i \in 0..st.n /\ i \in DOMAIN st.z
ZWritable(st, i) == i \in 0..st.n

Store(f, i, x) == [j \in DOMAIN f \cup {i} |-> IF j = i THEN x ELSE f[j]]

(* lines 167 and 171: the intersection of parabola q with parabola v[k] *)
Intersection(st) ==
    LET vk == st.v[st.k]
        q == st.q
    IN  FDivInt(FAdd(FSub(FSub(st.src[q], st.src[vk]), F(st.b * (q - vk))),
                     F(st.a * (square(q) - square(vk)))),
                2 * st.a * (q - vk))

UB(st) == [st EXCEPT !.pc = "ub"]

(* line 166-167: loop head of the envelope pass and the first s *)
Intersect(st) ==
    IF VReadable(st, st.k)
    THEN [st EXCEPT !.s = Intersection(st), !.pc = "while"]
    ELSE UB(st)

(* line 179: the envelope pass is over *)
EnterFill(st) == [st EXCEPT !.k = 0, !.q = 0, !.pc = "fill"]

(* line 168: the test of the pop loop *)
PopTest(st) == FLe(st.s, st.z[st.k])

(* lines 170-171: k--, then s recomputed against v[k] *)
Pop(st) ==
    LET st1 == [st EXCEPT !.k = st.k - 1]
    IN  IF VReadable(st1, st1.k)
        THEN [st1 EXCEPT !.s = Intersection(st1)]
        ELSE UB(st1)

(* lines 173-176 and the ++q of line 166 *)
Push(st) ==
    LET k1 == st.k + 1
    IN  IF k1 \in 0..(st.n - 1) /\ ZWritable(st, k1 + 1)
        THEN [st EXCEPT !.k = k1,
                        !.v = Store(st.v, k1, st.q),
                        !.z = Store(Store(st.z, k1, st.s), k1 + 1, PInf),
                        !.q = st.q + 1,
                        !.pc = "loop"]
        ELSE UB(st)

(* line 181: the test of the cursor loop *)
CursorTest(st) == FLt(st.z[st.k + 1], F(st.q))

(* line 181: k++ *)
Advance(st) == [st EXCEPT !.k = st.k + 1]

(* lines 182-183 and the ++q of line 180 *)
Emit(st) ==
    IF VReadable(st, st.k) /\ st.v[st.k] \in 0..(st.n - 1)
    THEN LET vk == st.v[st.k]
         IN  [st EXCEPT
                !.dst = Store(st.dst, st.q,
                          FAdd(F(st.a * square(st.q - vk) + st.b * (st.q - vk)),
                               st.src[vk])),
                !.ptr = Store(st.ptr, st.q, vk),
                !.q = st.q + 1,
                !.pc = "fill"]
    ELSE UB(st)

(* One step of the routine from a non-final state. *)
DT1DStep(st) ==
    CASE st.pc = "loop" -> IF st.q < st.n THEN Intersect(st) ELSE EnterFill(st)
      [] st.pc = "while" ->
            IF ~ZReadable(st, st.k) THEN UB(st)
            ELSE IF PopTest(st) THEN Pop(st) ELSE Push(st)
      [] st.pc = "fill" ->
            IF st.q >= st.n THEN [st EXCEPT !.pc = "done"]
            ELSE IF ~ZReadable(st, st.k + 1) THEN UB(st)
            ELSE IF CursorTest(st) THEN Advance(st) ELSE Emit(st)
      [] OTHER -> st

RECURSIVE DT1DRun(_)
DT1DRun(st) == IF st.pc \in {"done", "ub"} THEN st ELSE DT1DRun(DT1DStep(st))

(* The whole call: its final locals, pc = "done" (dst and ptr filled) or   *)
(* pc = "ub" (an access outside v[] or z[] was reached).                   *)
distanceTransform1D(src, n, a, b) == DT1DRun(DT1DEnter(src, n, a, b))

-----------------------------------------------------------------------------
(* The 1D transform run step by step on enumerated inputs. *)

SrcVals == {F(i) : i \in 0..MaxVal} \cup {NInf}
ACoefs == {1, 2, -1}
BCoefs == {0, 1}

(* 0-based C array of length n, as a function over 0..n-1 *)
Arrays(n, S) == [0..(n - 1) -> S]

DT1DInit ==
    /\ \E n \in 1..MaxN, a \in ACoefs, b \in BCoefs :
         \E src \in Arrays(n, SrcVals) :
            dt = DT1DEnter(src, n, a, b)
    /\ red = Idle /\ d2 = Idle /\ mn = Idle
    /\ model = Idle /\ scores = << >> /\ stack = << >> /\ hist = Idle

Others1D == <<red, d2, mn, model, scores, stack, hist>>

DTIntersect ==
    /\ dt.pc = "loop" /\ dt.q < dt.n
    /\ dt' = Intersect(dt)
    /\ UNCHANGED Others1D

DTEnterFill ==
    /\ dt.pc = "loop" /\ dt.q >= dt.n
    /\ dt' = EnterFill(dt)
    /\ UNCHANGED Others1D

DTPop ==
    /\ dt.pc = "while" /\ ZReadable(dt, dt.k) /\ PopTest(dt)
    /\ dt' = Pop(dt)
    /\ UNCHANGED Others1D

DTPush ==
    /\ dt.pc = "while" /\ ZReadable(dt, dt.k) /\ ~PopTest(dt)
    /\ dt' = Push(dt)
    /\ UNCHANGED Others1D

DTAdvance ==
    /\ dt.pc = "fill" /\ dt.q < dt.n
    /\ ZReadable(dt, dt.k + 1) /\ CursorTest(dt)
    /\ dt' = Advance(dt)
    /\ UNCHANGED Others1D

DTEmit ==
    /\ dt.pc = "fill" /\ dt.q < dt.n
    /\ ZReadable(dt, dt.k + 1) /\ ~CursorTest(dt)
    /\ dt' = Emit(dt)
    /\ UNCHANGED Others1D

(* z[k] (line 168) or z[k+1] (line 181) lies outside z[] or was never set *)
DTBadZ ==
    /\ \/ dt.pc = "while" /\ ~ZReadable(dt, dt.k)
       \/ dt.pc = "fill" /\ dt.q < dt.n /\ ~ZReadable(dt, dt.k + 1)
    /\ dt' = UB(dt)
    /\ UNCHANGED Others1D

DTReturn ==
    /\ dt.pc = "fill" /\ dt.q >= dt.n
    /\ dt' = [dt EXCEPT !.pc = "done"]
    /\ UNCHANGED Others1D

(* What a build makes of the undefined access: the process dies, or the    *)
(* call returns with indeterminate dst and ptr.  A sample of the           *)
(* indeterminate results is drawn: one value and one index for all cells.  *)
GarbageVals == {F(i) : i \in 0..MaxVal}
GarbageIdx(n) == (0 - 1)..n

DTUndefined ==
    /\ dt.pc = "ub"
    /\ \/ dt' = [dt EXCEPT !.pc = "crashed"]
       \/ \E g \in GarbageVals, i \in GarbageIdx(dt.n) :
            dt' = [dt EXCEPT !.pc = "returned",
                             !.dst = [j \in 0..(dt.n - 1) |-> g],
                             !.ptr = [j \in 0..(dt.n - 1) |-> i]]
    /\ UNCHANGED Others1D

DT1DNext ==
    \/ DTIntersect \/ DTEnterFill \/ DTPop \/ DTPush
    \/ DTAdvance \/ DTEmit \/ DTBadZ \/ DTReturn \/ DTUndefined

SpecDT1D == DT1DInit /\ [][DT1DNext]_vars

-----------------------------------------------------------------------------
(* Claims about distanceTransform1D *)

Ended1D == dt.pc \in {"done", "returned", "crashed"}

FiniteSrc == \A i \in 0..(dt.n - 1) : dt.src[i].t = "fin"

(* The deformation cost plus source value of reading position p from q. *)
Cost1D(q, p) == FAdd(F(dt.a * square(q - p) + dt.b * (q - p)), dt.src[p])

IsMinimum1D ==
    \A q \in 0..(dt.n - 1) :
        /\ q \in DOMAIN dt.ptr /\ q \in DOMAIN dt.dst
        /\ dt.ptr[q] \in 0..(dt.n - 1)
        /\ FEq(dt.dst[q], Cost1D(q, dt.ptr[q]))
        /\ \A p \in 0..(dt.n - 1) : FLe(dt.dst[q], Cost1D(q, p))

(* C1: for every finite src of length n >= 1 and every a > 0, the call     *)
(* returns dst and arg with arg[q] in [0,n), dst[q] equal to the cost at   *)
(* arg[q], and dst[q] no larger than the cost at any p.                    *)
C1_TrueMinimum ==
    (Ended1D /\ dt.a > 0 /\ FiniteSrc) => (dt.pc # "crashed" /\ IsMinimum1D)

(* The top of the stack v[0..top]: the largest index written. *)
Top1D == CHOOSE i \in DOMAIN dt.v : \A j \in DOMAIN dt.v : j <= i

(* C10: in the envelope pass k stays in [0, q-1], no access leaves v[] or  *)
(* z[], and in the fill pass the cursor k never passes the top of the      *)
(* stack.                                                                  *)
C10_MemorySafe ==
    dt.pc # "idle" =>
        /\ dt.pc # "ub"
        /\ dt.pc \in {"loop", "while"} => dt.k \in 0..(dt.q - 1)
        /\ dt.pc = "fill" => dt.k \in 0..Top1D

-----------------------------------------------------------------------------
(* cv::Mat planes: rows, cols and the elements in row-major order, data[i] *)
(* for i in 0..rows*cols-1.  Every plane the routines create is            *)
(* continuous.                                                             *)

Plane(rows, cols, data) == [rows |-> rows, cols |-> cols, data |-> data]
Cells(p) == 0..(p.rows * p.cols - 1)
SameSize(p, r) == p.rows = r.rows /\ p.cols = r.cols
At(p, r, c) == p.data[r * p.cols + c]
Row(p, m) == [j \in 0..(p.cols - 1) |-> p.data[m * p.cols + j]]
Fill(rows, cols, x) == Plane(rows, cols, [i \in 0..(rows * cols - 1) |-> x])

(* cv::transpose *)
Transpose(p) ==
    Plane(p.cols, p.rows,
          [i \in Cells(p) |-> p.data[(i % p.rows) * p.cols + (i \div p.rows)]])

(* A vector<Mat> of K planes is a function over 0..K-1. *)
Size(in) == Cardinality(DOMAIN in)

-----------------------------------------------------------------------------
(* reduceMax, lines 104-132 *)

(* line 127: the scan over k at cell n, from the incumbent (v, i) *)
RECURSIVE MaxScan(_, _, _, _, _)
MaxScan(in, n, k, v, i) ==
    IF k >= Size(in) THEN [v |-> v, i |-> i]
    ELSE IF FGt(in[k].data[n], v)
         THEN MaxScan(in, n, k + 1, in[k].data[n], n)
         ELSE MaxScan(in, n, k + 1, v, i)

reduceMax(in) ==
    IF ~(Size(in) > 1 /\ \A k \in 1..(Size(in) - 1) : SameSize(in[k], in[k - 1]))
    THEN [pc |-> "error"]
    ELSE LET cell == [n \in Cells(in[0]) |-> MaxScan(in, n, 0, NInf, 0)]
         IN  [pc |-> "done",
              maxv |-> Plane(in[0].rows, in[0].cols,
                             [n \in Cells(in[0]) |-> cell[n].v]),
              maxi |-> Plane(in[0].rows, in[0].cols,
                             [n \in Cells(in[0]) |-> cell[n].i])]

(* reducePickIndex, lines 66-91 *)
reducePickIndex(in, idx) ==
    IF ~(/\ \A n \in Cells(idx) : idx.data[n] >= 0 /\ idx.data[n] < Size(in)
         /\ \A k \in DOMAIN in : SameSize(in[k], idx))
    THEN [pc |-> "error"]
    ELSE [pc |-> "done",
          out |-> Plane(in[0].rows, in[0].cols,
                        [n \in Cells(in[0]) |-> in[idx.data[n]].data[n]])]

-----------------------------------------------------------------------------
(* The two reductions applied to enumerated stacks. *)

MaxK == 3
MaxCells == 3

PlaneVals == {F(i) : i \in 0..MaxVal} \cup {NInf}

ReduceInit ==
    /\ \E K \in 2..MaxK, cols \in 1..MaxCells :
         \E in \in [0..(K - 1) -> {Plane(1, cols, d) : d \in Arrays(cols, PlaneVals)}] :
            red = [pc |-> "start", in |-> in]
    /\ dt = Idle /\ d2 = Idle /\ mn = Idle
    /\ model = Idle /\ scores = << >> /\ stack = << >> /\ hist = Idle

OthersRed == <<dt, d2, mn, model, scores, stack, hist>>

RedMax ==
    /\ red.pc = "start"
    /\ LET r == reduceMax(red.in)
       IN  red' = IF r.pc = "error"
                  THEN [red EXCEPT !.pc = "domainError"]
                  ELSE [pc |-> "reduced", in |-> red.in,
                        maxv |-> r.maxv, maxi |-> r.maxi]
    /\ UNCHANGED OthersRed

RedPick ==
    /\ red.pc = "reduced"
    /\ LET r == reducePickIndex(red.in, red.maxi)
       IN  red' = IF r.pc = "error"
                  THEN [red EXCEPT !.pc = "domainError"]
                  ELSE [pc |-> "picked", in |-> red.in, maxv |-> red.maxv,
                        maxi |-> red.maxi, out |-> r.out]
    /\ UNCHANGED OthersRed

ReduceNext == RedMax \/ RedPick

SpecReduce == ReduceInit /\ [][ReduceNext]_vars

(* The maximum over the stack at cell n, and the planes that attain it. *)
AttainsMax(in, n, k) == \A j \in DOMAIN in : FLe(in[j].data[n], in[k].data[n])

(* C2: reduceMax returns at every cell the maximum over k and the smallest *)
(* plane index at which it is attained.                                    *)
C2_MaxAndFirstIndex ==
    red.pc = "reduced" =>
        \A n \in Cells(red.in[0]) :
            \E k \in DOMAIN red.in :
                /\ AttainsMax(red.in, n, k)
                /\ \A j \in DOMAIN red.in : AttainsMax(red.in, n, j) => k <= j
                /\ red.maxv.data[n] = red.in[k].data[n]
                /\ red.maxi.data[n] = k

(* C3: reducePickIndex on reduceMax's own index plane completes without a  *)
(* domain error and returns reduceMax's max-value plane.                   *)
C3_PickRoundTrip ==
    /\ red.pc # "domainError"
    /\ red.pc = "picked" => red.out = red.maxv

-----------------------------------------------------------------------------
(* distanceTransform, lines 207-257.  w = <<ax, bx, ay, by>> (w[0..3]).    *)

(* A plane built from per-row arrays. *)
FromRows(rows, cols, f) ==
    Plane(rows, cols, [i \in 0..(rows * cols - 1) |-> f[i \div cols][i % cols]])

distanceTransform(score_in, w) ==
    LET M == score_in.rows
        N == score_in.cols
        ax == w[1]
        bx == w[2]
        ay == w[3]
        by == w[4]
        (* lines 228-230: across the rows *)
        pass1 == [m \in 0..(M - 1) |->
                    distanceTransform1D(Row(score_in, m), N, 0 - ax, 0 - bx)]
        score_tmp == FromRows(M, N, [m \in 0..(M - 1) |-> pass1[m].dst])
        Ix == FromRows(M, N, [m \in 0..(M - 1) |-> pass1[m].ptr])
        (* line 233 *)
        tmpT == Transpose(score_tmp)
        (* lines 236-239: down the columns *)
        pass2 == [n \in 0..(N - 1) |->
                    distanceTransform1D(Row(tmpT, n), M, 0 - ay, 0 - by)]
        outT == FromRows(N, M, [n \in 0..(N - 1) |-> pass2[n].dst])
        IyT == FromRows(N, M, [n \in 0..(N - 1) |-> pass2[n].ptr])
        (* lines 242-243 *)
        score_out == Transpose(outT)
        IyRaw == Transpose(IyT)
        (* lines 246-256: Iy[m][n] = Iy[m][ Ix[m][n] ] *)
        Iy == Plane(M, N, [i \in 0..(M * N - 1) |->
                              At(IyRaw, i \div N, Ix.data[i])])
    IN  IF \E m \in 0..(M - 1) : pass1[m].pc = "ub" THEN [pc |-> "ub"]
        ELSE IF \E n \in 0..(N - 1) : pass2[n].pc = "ub" THEN [pc |-> "ub"]
        ELSE [pc |-> "done", score_out |-> score_out, Ix |-> Ix, Iy |-> Iy]

-----------------------------------------------------------------------------
(* The 2D transform applied to enumerated planes. *)

MaxDim == 2

Weights == {<<0 - 1, 0, 0 - 1, 0>>, <<0 - 1, 0 - 1, 0 - 2, 0>>}

PlanesOf(rows, cols, S) == {Plane(rows, cols, d) : d \in Arrays(rows * cols, S)}

DT2DInit ==
    /\ \E M \in 1..MaxDim, N \in 1..MaxDim, w \in Weights :
         \E p \in PlanesOf(M, N, SrcVals) :
            d2 = [pc |-> "start", score_in |-> p, w |-> w]
    /\ dt = Idle /\ red = Idle /\ mn = Idle
    /\ model = Idle /\ scores = << >> /\ stack = << >> /\ hist = Idle

Others2D == <<dt, red, mn, model, scores, stack, hist>>

D2Transform ==
    /\ d2.pc = "start"
    /\ LET r == distanceTransform(d2.score_in, d2.w)
       IN  d2' = IF r.pc = "ub"
                 THEN [d2 EXCEPT !.pc = "ub"]
                 ELSE [pc |-> "done", score_in |-> d2.score_in, w |-> d2.w,
                       score_out |-> r.score_out, Ix |-> r.Ix, Iy |-> r.Iy]
    /\ UNCHANGED Others2D

(* The undefined access inside a 1D pass: the process dies, or the call    *)
(* returns indeterminate planes (a sample: one value, one index for all).  *)
D2Undefined ==
    /\ d2.pc = "ub"
    /\ LET M == d2.score_in.rows
           N == d2.score_in.cols
       IN  \/ d2' = [d2 EXCEPT !.pc = "crashed"]
           \/ \E g \in GarbageVals, i \in GarbageIdx(MaxDim) :
                d2' = [pc |-> "returned", score_in |-> d2.score_in, w |-> d2.w,
                       score_out |-> Fill(M, N, g),
                       Ix |-> Fill(M, N, i), Iy |-> Fill(M, N, i)]
    /\ UNCHANGED Others2D

DT2DNext == D2Transform \/ D2Undefined

SpecDT2D == DT2DInit /\ [][DT2DNext]_vars

Ended2D == d2.pc \in {"done", "returned", "crashed"}

(* The 2D deformation cost of reading (r, c) from (i, j), with the         *)
(* coefficients as the two passes receive them (-ax, -bx, -ay, -by).       *)
Cost2D(i, j, r, c) ==
    (0 - d2.w[1]) * square(j - c) + (0 - d2.w[2]) * (j - c)
    + (0 - d2.w[3]) * square(i - r) + (0 - d2.w[4]) * (i - r)

(* C4: at every cell (i,j), (Iy, Ix) names a cell of scoreIn and scoreOut  *)
(* equals the 2D cost between the two cells plus scoreIn at that cell.     *)
C4_ArgminsNameSource ==
    Ended2D =>
        /\ d2.pc # "crashed"
        /\ \A i \in 0..(d2.score_in.rows - 1), j \in 0..(d2.score_in.cols - 1) :
             LET r == At(d2.Iy, i, j)
                 c == At(d2.Ix, i, j)
             IN  /\ r \in 0..(d2.score_in.rows - 1)
                 /\ c \in 0..(d2.score_in.cols - 1)
                 /\ FEq(At(d2.score_out, i, j),
                        FAdd(F(Cost2D(i, j, r, c)), At(d2.score_in, r, c)))

-----------------------------------------------------------------------------
(* min, lines 358-371 *)

MaxDesc == 2
MaxMix == 3
MaxScales == 2

MinInit ==
    /\ \E nd \in 0..MaxDesc, nm \in 1..MaxMix, ns \in 1..MaxScales,
          size \in 0..((MaxDesc + 1) * MaxMix * MaxScales) :
            mn = [pc |-> "enter", ndescendants |-> nd, nmixtures |-> nm,
                  nscales |-> ns, size |-> size]
    /\ dt = Idle /\ red = Idle /\ d2 = Idle
    /\ model = Idle /\ scores = << >> /\ stack = << >> /\ hist = Idle

OthersMin == <<dt, red, d2, model, scores, stack, hist>>

(* line 361: the asserted equality, with C's precedence of * over + *)
SizeAccepted(size, nd, nm, ns) == size = nd + 1 * nm * ns

MinAssert ==
    /\ mn.pc = "enter"
    /\ mn' = [mn EXCEPT !.pc =
                IF SizeAccepted(mn.size, mn.ndescendants, mn.nmixtures, mn.nscales)
                THEN "accepted" ELSE "sizeError"]
    /\ UNCHANGED OthersMin

(* lines 364-369: responses[nparts*nmixtures*0] is read for its shape *)
MinRead ==
    /\ mn.pc = "accepted"
    /\ mn' = [mn EXCEPT !.pc = IF 0 < mn.size THEN "returned" ELSE "ub"]
    /\ UNCHANGED OthersMin

MinNext == MinAssert \/ MinRead

SpecMin == MinInit /\ [][MinNext]_vars

(* C5: the call is accepted if and only if responses holds exactly         *)
(* (ndescendants+1) * nmixtures * nscales planes; otherwise it fails with  *)
(* the size error before any plane is read.                                *)
C5_ExactCount ==
    mn.pc \notin {"idle", "enter"} =>
        (mn.pc # "sizeError"
            <=> mn.size = (mn.ndescendants + 1) * mn.nmixtures * mn.nscales)

-----------------------------------------------------------------------------
(* The Part tree, as minRecursive reads it through Part's accessors.       *)
(* model.parentOf[i] is the parent of part i (part 0 is the root); pos()   *)
(* of a part is its number; nmixtures(), w(), bias() and anchor() are the  *)
(* same for every part of one model.                                       *)

Kids(n) == {i \in 1..(model.nparts - 1) : model.parentOf[i] = n}
NumChildren(n) == Cardinality(Kids(n))
(* children()[c] *)
Child(n, c) == CHOOSE i \in Kids(n) : Cardinality({j \in Kids(n) : j < i}) = c
isLeaf(n) == Kids(n) = {}

RECURSIVE Descendants(_)
Descendants(n) == Kids(n) \cup UNION {Descendants(i) : i \in Kids(n)}

(* lines 278-279: the first slot of a part at a scale *)
Ns(self, scale) == model.nparts * model.nmixtures * scale + model.nmixtures * self
NpOwn(self, parent, scale) ==
    model.nparts * model.nmixtures * scale + model.nmixtures * self
Np(self, parent, scale) ==
    model.nparts * model.nmixtures * scale + model.nmixtures * parent

SlotsOf(n, scale) == {Ns(n, scale) + m : m \in 0..(model.nmixtures - 1)}
ScaleSlots(scale) ==
    (model.nparts * model.nmixtures * scale)
        ..(model.nparts * model.nmixtures * (scale + 1) - 1)

Max(a, b) == IF a > b THEN a ELSE b
Min(a, b) == IF a < b THEN a ELSE b

(* cv::Mat(m, rowRange, colRange): CV_Assert on both ranges *)
RangeOK(start, end, size) == 0 <= start /\ start <= end /\ end <= size

(* Mat::operator=(const Mat&) applied to the temporary header that         *)
(* dst(rowRange, colRange) returns: the temporary is re-seated on src's    *)
(* data and dropped; no element of dst is written.                         *)
AssignToROI(dst, src) == dst

(* lines 288-306: the shift of score_dt by the anchor *)
Shift(score_in, score_dt) ==
    LET X == score_in.cols
        Y == score_in.rows
        xmin == Max(model.anchor[1], 0)
        ymin == Max(model.anchor[2], 0)
        xmax == Min(model.anchor[1] + X, X)
        ymax == Min(model.anchor[2] + Y, X)
        xoff == Max(0 - model.anchor[1], 0)
        yoff == Max(0 - model.anchor[2], 0)
        score == Fill(score_dt.rows, score_dt.cols, NInf)
    IN  IF /\ RangeOK(xoff, xoff + xmax - xmin, score.rows)
           /\ RangeOK(yoff, yoff + ymax - ymin, score.cols)
           /\ RangeOK(xmin, xmax, score_dt.rows)
           /\ RangeOK(ymin, ymax, score_dt.cols)
        THEN [pc |-> "done", score |-> AssignToROI(score, score_dt)]
        ELSE [pc |-> "rangeError"]

(* lines 280-312: the loop over the mixtures of self, from mixture m on.   *)
(* survive: a build in which the undefined access of the 1D transform does *)
(* not kill the process; g: the indeterminate score it then leaves.        *)
RECURSIVE TransformLoop(_, _, _, _, _, _, _)
TransformLoop(self, scale, m, score_dts, scoresi, survive, g) ==
    IF m >= model.nmixtures
    THEN [pc |-> "done", score_dt |-> score_dts, scoresi |-> scoresi]
    ELSE LET score_in == scores[Ns(self, scale) + m]
             r == distanceTransform(score_in, model.w)
             score_dt == IF r.pc = "ub"
                         THEN Fill(score_in.rows, score_in.cols, g)
                         ELSE r.score_out
             sh == Shift(score_in, score_dt)
         IN  IF r.pc = "ub" /\ ~survive THEN [pc |-> "crashed"]
             ELSE IF sh.pc = "rangeError"
             THEN [pc |-> "rangeError", score_dt |-> Store(score_dts, m, score_dt)]
             ELSE TransformLoop(self, scale, m + 1,
                                Store(score_dts, m, score_dt),
                                Store(scoresi, m, sh.score), survive, g)

(* Mat + scalar *)
AddScalar(p, x) == Plane(p.rows, p.cols, [i \in Cells(p) |-> FAdd(p.data[i], F(x))])

(* lines 315-336: the loop over the parent mixtures, from mixture m on,    *)
(* on the score array sc.  Ixi and Iyi hold all-zero planes of the shape   *)
(* of the shifted scores.                                                  *)
RECURSIVE ReduceLoop(_, _, _, _, _, _)
ReduceLoop(sc, self, parent, scale, scoresi, m) ==
    IF m >= model.nmixtures THEN [pc |-> "done", scores |-> sc, m |-> m]
    ELSE LET weighted == [mm \in 0..(model.nmixtures - 1) |->
                            AddScalar(sc[mm], model.bias[m][mm])]
             Ixi == [mm \in 0..(model.nmixtures - 1) |->
                        Fill(scoresi[mm].rows, scoresi[mm].cols, 0)]
             mx == reduceMax(weighted)
             pick == reducePickIndex(Ixi, mx.maxi)
         IN  IF mx.pc = "error"
             THEN [pc |-> "reduceMaxError", scores |-> sc, m |-> m]
             ELSE IF pick.pc = "error"
             THEN [pc |-> "pickIndexError", scores |-> sc, m |-> m]
             ELSE ReduceLoop([sc EXCEPT ![Np(self, parent, scale) + m] = mx.maxv],
                             self, parent, scale, scoresi, m + 1)

-----------------------------------------------------------------------------
(* Two sweeps of minRecursive over the tree, at two scales, their node     *)
(* visits interleaved.  stack[s] is the call stack of the sweep at scale   *)
(* s: one frame per active call, the innermost last.                       *)

MaxParts == 3
MaxMixtures == 2
NumScales == 2

(* zero, positive, negative, as large as the largest plane, and larger *)
Anchors == {<<0, 0>>, <<1, 0>>, <<0, 0 - 1>>, <<MaxDim, 0>>, <<MaxDim + 1, 0>>}
Shapes == {<<1, 1>>, <<2, 1>>, <<1, 2>>, <<2, 2>>}
BiasVals == {0, 1}

Trees(np) == {p \in [1..(np - 1) -> 0..(np - 2)] : \A i \in 1..(np - 1) : p[i] < i}

Biases(nm) ==
    {[m \in 0..(nm - 1) |-> [mm \in 0..(nm - 1) |-> IF m = mm THEN b0 ELSE b1]] :
        b0 \in BiasVals, b1 \in BiasVals}

Frame(self, parent) == [self |-> self, parent |-> parent, c |-> 0, pc |-> "children"]

(* A model, the responses of every (scale, part, mixture) slot, and the    *)
(* sweeps of `count` scales about to start.                                *)
SweepInitOf(count) ==
    /\ \E np \in 2..MaxParts, nm \in 1..MaxMixtures, anchor \in Anchors,
          shape \in Shapes, seed \in 0..MaxVal :
         \E parentOf \in Trees(np), bias \in Biases(nm) :
            /\ model = [nparts |-> np, nmixtures |-> nm, parentOf |-> parentOf,
                        anchor |-> anchor, bias |-> bias,
                        w |-> <<0 - 1, 0, 0 - 1, 0>>]
            /\ scores = [i \in 0..(np * nm * NumScales - 1) |->
                            Fill(shape[1], shape[2], F((i + seed) % (MaxVal + 1)))]
    /\ \E S \in SUBSET (0..(NumScales - 1)) :
            /\ Cardinality(S) = count
            /\ stack = [x \in S |-> [pc |-> "ready", frames |-> << >>]]
    /\ hist = [pc |-> "recording", init |-> scores, read |-> {}, msgs |-> {}, access |-> {},
               last |-> Idle, shift |-> Idle]
    /\ dt = Idle /\ red = Idle /\ d2 = Idle /\ mn = Idle

SweepInit == SweepInitOf(1)
TwoSweepsInit == SweepInitOf(2)

OthersSweep == <<dt, red, d2, mn, model>>

(* A failed assert, a cv::Exception or a crash ends the process. *)
Running == \A s \in DOMAIN stack : stack[s].pc \in {"ready", "running", "done"}

Top(s) == stack[s].frames[Len(stack[s].frames)]
SetTop(s, f) == [stack[s].frames EXCEPT ![Len(stack[s].frames)] = f]
Pop1(q) == SubSeq(q, 1, Len(q) - 1)

(* The call that starts a sweep: minRecursive(root, root, scores, nparts, s) *)
SweepStart ==
    \E s \in DOMAIN stack :
    /\ Running /\ stack[s].pc = "ready"
    /\ stack' = [stack EXCEPT ![s] = [pc |-> "running", frames |-> <<Frame(0, 0)>>]]
    /\ UNCHANGED <<scores, hist>>
    /\ UNCHANGED OthersSweep

(* lines 263-265: the call for the next child *)
Descend ==
    \E s \in DOMAIN stack :
    /\ Running /\ stack[s].pc = "running"
    /\ Top(s).pc = "children"
    /\ ~isLeaf(Top(s).self) /\ Top(s).c < NumChildren(Top(s).self)
    /\ stack' = [stack EXCEPT ![s].frames =
                    Append(SetTop(s, [Top(s) EXCEPT !.c = Top(s).c + 1]),
                           Frame(Child(Top(s).self, Top(s).c), Top(s).self))]
    /\ UNCHANGED <<scores, hist>>
    /\ UNCHANGED OthersSweep

(* lines 277-312: steps 2 and 3 for every mixture of the node *)
Transform ==
    \E s \in DOMAIN stack :
    /\ Running /\ stack[s].pc = "running"
    /\ Top(s).pc = "children"
    /\ isLeaf(Top(s).self) \/ Top(s).c >= NumChildren(Top(s).self)
    /\ \E survive \in BOOLEAN, g \in GarbageVals :
        \E r \in {TransformLoop(Top(s).self, s, 0, << >>, << >>, survive, g)} :
         LET self == Top(s).self
             reads == {<<s, i>> : i \in SlotsOf(self, s)}
         IN  /\ stack' =
                  IF r.pc = "done"
                  THEN [stack EXCEPT ![s].frames =
                          SetTop(s, [self |-> self, parent |-> Top(s).parent,
                                     c |-> Top(s).c, pc |-> "reduce",
                                     scoresi |-> r.scoresi])]
                  ELSE [stack EXCEPT ![s].pc = r.pc]
             /\ hist' = [hist EXCEPT
                          !.read = @ \cup {<<s, self>>},
                          !.access = @ \cup reads,
                          !.shift = IF r.pc = "crashed" THEN @
                                    ELSE [pc |-> r.pc, scale |-> s, self |-> self,
                                          score_dt |-> r.score_dt,
                                          scoresi |-> IF r.pc = "done"
                                                      THEN r.scoresi ELSE << >>]]
    /\ UNCHANGED scores
    /\ UNCHANGED OthersSweep

(* lines 314-337: step 4 for every parent mixture, and the return *)
Reduce ==
    \E s \in DOMAIN stack :
    /\ Running /\ stack[s].pc = "running"
    /\ Top(s).pc = "reduce"
    /\ \E r \in {ReduceLoop(scores, Top(s).self, Top(s).parent, s, Top(s).scoresi, 0)} :
         LET self == Top(s).self
             parent == Top(s).parent
             (* line 321 reads scores[mm]; line 335 writes scores[Np+m] *)
             reads == 0..(model.nmixtures - 1)
             slots == {Np(self, parent, s) + m : m \in 0..(r.m - 1)}
         IN  /\ scores' = r.scores
             /\ stack' =
                  IF r.pc # "done" THEN [stack EXCEPT ![s].pc = r.pc]
                  ELSE IF Len(stack[s].frames) = 1
                  THEN [stack EXCEPT ![s] = [pc |-> "done", frames |-> << >>]]
                  ELSE [stack EXCEPT ![s].frames = Pop1(@)]
             /\ hist' = [hist EXCEPT
                          !.access = @ \cup {<<s, i>> : i \in reads \cup slots},
                          !.msgs = IF r.pc = "done"
                                   THEN @ \cup {[scale |-> s, self |-> self,
                                                 parent |-> parent, slots |-> slots]}
                                   ELSE @,
                          !.last = IF r.pc = "done"
                                   THEN [pc |-> "done", scale |-> s, self |-> self,
                                         parent |-> parent,
                                         scoresi |-> Top(s).scoresi]
                                   ELSE @]
    /\ UNCHANGED OthersSweep

SweepNext == SweepStart \/ Descend \/ Transform \/ Reduce

(* one sweep, at any one scale *)
SpecSweep == SweepInit /\ [][SweepNext]_vars

(* the sweeps of two scales, interleaved at the steps above *)
SpecTwoSweeps == TwoSweepsInit /\ [][SweepNext]_vars

-----------------------------------------------------------------------------
(* Claims about minRecursive *)

(* The visits of a whole sweep in the order of the recursion, and the      *)
(* score array they leave when no other sweep runs in between.             *)
RECURSIVE PostOrder(_, _), ChildVisits(_, _)
ChildVisits(n, c) ==
    IF c >= NumChildren(n) THEN << >>
    ELSE PostOrder(Child(n, c), n) \o ChildVisits(n, c + 1)
PostOrder(self, parent) ==
    ChildVisits(self, 0) \o <<[self |-> self, parent |-> parent]>>

RECURSIVE RunVisits(_, _, _)
RunVisits(sc, visits, scale) ==
    IF visits = << >> THEN sc
    ELSE LET scoresi == [mm \in 0..(model.nmixtures - 1) |->
                            Fill(sc[0].rows, sc[0].cols, NInf)]
         IN  RunVisits(ReduceLoop(sc, Head(visits).self, Head(visits).parent,
                                  scale, scoresi, 0).scores,
                       Tail(visits), scale)

RECURSIVE SweepsInOrder(_, _)
SweepsInOrder(sc, todo) ==
    IF todo = {} THEN sc
    ELSE LET s == CHOOSE x \in todo : \A y \in todo : x <= y
         IN  SweepsInOrder(RunVisits(sc, PostOrder(0, 0), s), todo \ {s})

AllDone == \A s \in DOMAIN stack : stack[s].pc = "done"

(* a sweep at scale s touches only the slots of scale s *)
C6_Locality == \A a \in hist.access : a[2] \in ScaleSlots(a[1])

(* however the visits of the two sweeps interleave, the final array is the *)
(* one that running the sweeps one after the other leaves                  *)
C6_SameFinalContents ==
    (hist.pc # "idle" /\ AllDone) => scores = SweepsInOrder(hist.init, DOMAIN stack)

(* C6: the sweeps of two scales are independent: each reads and writes     *)
(* only the slots of its own scale, so every order and interleaving of     *)
(* their visits leaves the same final contents in every slot.              *)
C6_ScalesIndependent ==
    hist.pc # "idle" => (C6_Locality /\ C6_SameFinalContents)

(* C7: after a visit of self under parent at scale s, the parent's slot of *)
(* every mixture m holds, at every cell, the maximum over m' of            *)
(* shifted[m'][cell] + bias[m][m'], shifted being the planes of step 3 of  *)
(* the same visit.                                                         *)
C7_MessageFromShifted ==
    (hist.pc # "idle" /\ hist.last.pc = "done") =>
        \A m \in 0..(model.nmixtures - 1) :
            LET slot == scores[Np(hist.last.self, hist.last.parent, hist.last.scale) + m]
                val(mm, i) == FAdd(hist.last.scoresi[mm].data[i], F(model.bias[m][mm]))
            IN  \A i \in Cells(slot) :
                    /\ \E mm \in 0..(model.nmixtures - 1) : slot.data[i] = val(mm, i)
                    /\ \A mm \in 0..(model.nmixtures - 1) : FLe(val(mm, i), slot.data[i])

(* The plane p displaced by the anchor: cell (r, c) shows p at             *)
(* (r + anchor.y, c + anchor.x), or negative infinity outside p.           *)
Displaced(p) ==
    Plane(p.rows, p.cols,
          [i \in Cells(p) |->
              LET r == (i \div p.cols) + model.anchor[2]
                  c == (i % p.cols) + model.anchor[1]
              IN  IF r \in 0..(p.rows - 1) /\ c \in 0..(p.cols - 1)
                  THEN At(p, r, c) ELSE NInf])

(* C8: for every anchor and plane shape, step 3 does not abort the sweep   *)
(* and stores, for each mixture, the transformed plane displaced by the    *)
(* anchor, negative infinity outside the overlap.                          *)
C8_ShiftedPlane ==
    (hist.pc # "idle" /\ hist.shift.pc # "idle") =>
        /\ hist.shift.pc # "rangeError"
        /\ \A m \in DOMAIN hist.shift.scoresi :
              hist.shift.scoresi[m] = Displaced(hist.shift.score_dt[m])

(* C9: when a node of a sweep runs its step 2, every descendant of the     *)
(* node has finished its visit in that sweep and has written its message   *)
(* into the score slots of its own parent; so every child's message is in  *)
(* the node's slots before they are read, and no descendant writes later.  *)
C9_PostOrder ==
    hist.pc # "idle" =>
        \A rd \in hist.read :
            \A d \in Descendants(rd[2]) :
                \E msg \in hist.msgs :
                    /\ msg.scale = rd[1]
                    /\ msg.self = d
                    /\ msg.parent = model.parentOf[d]
                    /\ msg.slots = SlotsOf(model.parentOf[d], rd[1])

(* a node with a grandchild has run its step 2 and its own step 4 *)
C9_Witness ==
    /\ hist.pc # "idle"
    /\ \E rd \in hist.read :
          /\ \E d \in Kids(rd[2]) : Kids(d) # {}
          /\ \E msg \in hist.msgs : msg.scale = rd[1] /\ msg.self = rd[2]

=============================================================================
